---- MODULE Spec2Model ----
(***************************************************************************)
(* The user routes of folkatech-nodejs (routes/users.js): list, create,    *)
(* get-by-account, get-by-identity, update and delete over a MongoDB       *)
(* collection (models/User.js) and a Redis cache.  Every `await` of a      *)
(* handler is one atomic step; handlers of different requests interleave   *)
(* at their awaits.                                                        *)
(***************************************************************************)
EXTENDS Integers, Sequences, FiniteSets, TLC

(* ------------------------------ bounds -------------------------------- *)

\* Request slots: how many requests can be in flight at once.
MaxReqs == 2
\* How many requests a run with overlapping requests admits in all.
MaxRace == 3
\* How many documents are ever inserted in one run (ObjectIds are not reused).
MaxIds == 2
\* How many updates of an existing document are admitted in one run.
MaxUpdates == 1

Slots == 1..MaxReqs
Ids == 1..MaxIds

(* ------------------------------ inputs -------------------------------- *)

\* A string is the sequence of its ':'-separated tokens, so that the template
\* strings that build the cache keys are concatenations.
AccountNumbers == {<<"a1">>, <<"identity", "i1">>}
IdentityNumbers == {<<"i1">>, <<"i2">>}

\* The bodies of the create requests issued.
CreateBodies ==
    { [userName |-> "n1", accountNumber |-> a, emailAddress |-> e,
       identityNumber |-> i, password |-> "secret"] :
      a \in AccountNumbers, e \in {"e1", "E2"}, i \in IdentityNumbers }

\* The bodies of the update requests issued: any set of fields, each with the
\* value below.
UpdateFields == {"userName", "accountNumber", "emailAddress", "identityNumber"}
UpdateValue ==
    [ userName |-> "n2", accountNumber |-> <<"identity", "i1">>,
      emailAddress |-> "E2", identityNumber |-> <<"i2">> ]
UpdateBodies == {[f \in F |-> UpdateValue[f]] : F \in SUBSET UpdateFields}

\* The list requests issued: [paginate, page, limit] as parsed from the query
\* (0 stands for an absent or zero parameter).
ListQueries ==
    { [paginate |-> 0, page |-> 0, limit |-> 0],
      [paginate |-> 1, page |-> 0, limit |-> 0],
      [paginate |-> 1, page |-> 1, limit |-> 1],
      [paginate |-> 1, page |-> 2, limit |-> 1] }

(* ------------------------------ schema -------------------------------- *)

\* emailAddress: { lowercase: true }
Lowercase(e) == IF e = "E2" THEN "e2" ELSE e

\* bcrypt.hash(password, 10): an opaque one-way value.
BcryptHash(pw) == <<"bcrypt", pw>>

\* new User({...}) with the schema's setters applied; _id is the insertion
\* number, and { timestamps: true } stamps createdAt and updatedAt with it.
NewUser(id, body) ==
    [ _id |-> id,
      userName |-> body.userName,
      accountNumber |-> body.accountNumber,
      emailAddress |-> Lowercase(body.emailAddress),
      identityNumber |-> body.identityNumber,
      password |-> BcryptHash(body.password),
      createdAt |-> id,
      updatedAt |-> id ]

\* Mutant of ExcludePassword: the hash is left in.
KeepPassword(doc) == doc

\* .select('-password') and `delete userCache.password`
ExcludePassword(doc) == [f \in (DOMAIN doc) \ {"password"} |-> doc[f]]

\* Mutant of DuplicateKey: accountNumber has no unique index.
DuplicateKeyNoAccount(doc, S) ==
    \E r \in S :
        /\ r._id # doc._id
        /\ \/ r.emailAddress = doc.emailAddress
           \/ r.identityNumber = doc.identityNumber

\* The three unique indexes: does doc collide with another document of S?
DuplicateKey(doc, S) ==
    \E r \in S :
        /\ r._id # doc._id
        /\ \/ r.accountNumber = doc.accountNumber
           \/ r.emailAddress = doc.emailAddress
           \/ r.identityNumber = doc.identityNumber

(* ---------------------------- cache keys ------------------------------ *)

\* `user:${accountNumber}`
AccountKey(a) == <<"user">> \o a
\* `user:identity:${identityNumber}`
IdentityKey(i) == <<"user", "identity">> \o i
\* `users:list:all`
ListAllKey == <<"users", "list", "all">>
\* `users:list:${page}:${limit}`
ListPageKey(page, limit) == <<"users", "list", ToString(page), ToString(limit)>>
\* the pattern 'users:list:*'
MatchesListPattern(k) == Len(k) >= 3 /\ k[1] = "users" /\ k[2] = "list"

ListTTL == 300

\* JSON.stringify / JSON.parse of a cached payload
JSONStringify(v) == <<"json", v>>
JSONParse(s) == s[2]

(* ------------------------------- state -------------------------------- *)

VARIABLES
    store,      \* the users collection: a set of documents
    nextId,     \* the next insertion number
    updates,    \* how many updates of an existing document were admitted
    cache,      \* Redis: key -> [val, ttl], defined on the keys present
    req,        \* per slot: the request being served and where its handler is
    overlapped, \* history: some request has started while another was in flight
    par,        \* how many requests this run lets be in flight at once
    admitted    \* how many requests a run with par > 1 has admitted

vars == <<store, nextId, updates, cache, req, overlapped, par, admitted>>

NoVal == <<>>
Idle ==
    [ op |-> "idle", pc |-> "idle", arg |-> NoVal, loc |-> NoVal,
      status |-> 0, body |-> NoVal, conc |-> {}, touched |-> FALSE, fresh |-> FALSE ]

InFlight(q) == req[q].pc \notin {"idle", "done"}
Done(q) == req[q].pc = "done"

\* redisClient.get / set / setEx / del / keys
RedisHas(k) == k \in DOMAIN cache
RedisGet(k) == cache[k].val
RedisSet(c, k, v) ==
    [x \in (DOMAIN c) \cup {k} |-> IF x = k THEN [val |-> v, ttl |-> {}] ELSE c[x]]
\* Mutant of RedisSetEx: the value is stored without the expiry.
RedisSetKeepForever(c, k, t, v) ==
    [x \in (DOMAIN c) \cup {k} |-> IF x = k THEN [val |-> v, ttl |-> {}] ELSE c[x]]

RedisSetEx(c, k, t, v) ==
    [x \in (DOMAIN c) \cup {k} |-> IF x = k THEN [val |-> v, ttl |-> {t}] ELSE c[x]]
RedisDel(c, ks) == [x \in (DOMAIN c) \ ks |-> c[x]]
RedisKeys == {k \in DOMAIN cache : MatchesListPattern(k)}

Init ==
    /\ store = {}
    /\ nextId = 1
    /\ updates = 0
    /\ cache = <<>>
    /\ req = [p \in Slots |-> Idle]
    /\ overlapped = FALSE
    /\ par \in Slots
    /\ admitted = 0

(* --------------------------- request frame ---------------------------- *)

\* A request is admitted into the lowest free slot, and only once every
\* response already sent has been collected.  A run explores either requests
\* served one at a time, without limit, or MaxRace requests that may overlap.
CanStart(p) ==
    /\ req[p].pc = "idle"
    /\ p <= par
    /\ par > 1 => admitted < MaxRace
    /\ \A q \in Slots : ~Done(q)
    /\ \A q \in Slots : q < p => req[q].pc # "idle"

\* Slot p's handler moves on; s2 and c2 are the store and cache it leaves.
Touch(r, s2, c2) == [r EXCEPT !.touched = @ \/ s2 # store \/ c2 # cache]
Goto(r, pc, loc) == [r EXCEPT !.pc = pc, !.loc = loc]
Respond(r, status, body) == [r EXCEPT !.pc = "done", !.status = status, !.body = body]

\* The request r starts in slot p.
Admit(p, r) ==
    /\ req' = [q \in Slots |->
                 IF q = p THEN [r EXCEPT !.conc = {x \in Slots : InFlight(x)}]
                 ELSE IF InFlight(q) THEN [req[q] EXCEPT !.conc = @ \cup {p}]
                 ELSE req[q]]
    /\ overlapped' = (overlapped \/ \E q \in Slots : InFlight(q))
    /\ admitted' = IF par > 1 THEN admitted + 1 ELSE admitted
    /\ UNCHANGED par

Step(p, r) ==
    /\ req' = [req EXCEPT ![p] = Touch(r, store', cache')]
    /\ UNCHANGED <<overlapped, par, admitted>>

\* The caller has read the response of slot p.  In conc, the slots whose
\* requests overlapped a request, a collected request counts as slot 0.
Release(p) ==
    /\ Done(p)
    /\ req' = [q \in Slots |->
                 IF q = p THEN Idle
                 ELSE IF p \in req[q].conc
                 THEN [req[q] EXCEPT !.conc = (@ \ {p}) \cup {0}]
                 ELSE req[q]]
    /\ UNCHANGED <<store, nextId, updates, cache, overlapped, par, admitted>>

(* ------------------------- POST /  (create) --------------------------- *)

\* validateUser passes, bcrypt.hash is awaited
CreateStart(p) ==
    \E body \in CreateBodies :
        /\ CanStart(p)
        /\ nextId + Cardinality({q \in Slots : req[q].pc = "save"}) <= MaxIds
        /\ Admit(p, [Idle EXCEPT !.op = "create", !.pc = "save", !.arg = body,
                                 !.fresh = ~DuplicateKey(NewUser(0, body), store)])
        /\ UNCHANGED <<store, nextId, updates, cache>>

\* Mutant of CreateSave: E11000 is not told apart and answers 500.
CreateSaveUncaught(p) ==
    /\ req[p].op = "create" /\ req[p].pc = "save"
    /\ LET user == NewUser(nextId, req[p].arg)
       IN IF DuplicateKey(user, store)
          THEN /\ UNCHANGED <<store, nextId, updates, cache>>
               /\ Step(p, Respond(req[p], 500, [message |-> "Server error"]))
          ELSE /\ store' = store \cup {user}
               /\ nextId' = nextId + 1
               /\ UNCHANGED <<updates, cache>>
               /\ Step(p, Goto(req[p], "set1", [user |-> user]))

\* await user.save(): the insert, or E11000 caught as 400
CreateSave(p) ==
    /\ req[p].op = "create" /\ req[p].pc = "save"
    /\ LET user == NewUser(nextId, req[p].arg)
       IN IF DuplicateKey(user, store)
          THEN /\ UNCHANGED <<store, nextId, updates, cache>>
               /\ Step(p, Respond(req[p], 400, [message |-> "Duplicate entry found"]))
          ELSE /\ store' = store \cup {user}
               /\ nextId' = nextId + 1
               /\ UNCHANGED <<updates, cache>>
               /\ Step(p, Goto(req[p], "set1", [user |-> user]))

\* await redisClient.set(`user:${accountNumber}`, JSON.stringify(userCache))
CreateSetAccount(p) ==
    /\ req[p].op = "create" /\ req[p].pc = "set1"
    /\ cache' = RedisSet(cache, AccountKey(req[p].arg.accountNumber),
                         JSONStringify(ExcludePassword(req[p].loc.user)))
    /\ UNCHANGED <<store, nextId, updates>>
    /\ Step(p, Goto(req[p], "set2", req[p].loc))

\* await redisClient.set(`user:identity:${identityNumber}`, ...)
CreateSetIdentity(p) ==
    /\ req[p].op = "create" /\ req[p].pc = "set2"
    /\ cache' = RedisSet(cache, IdentityKey(req[p].arg.identityNumber),
                         JSONStringify(ExcludePassword(req[p].loc.user)))
    /\ UNCHANGED <<store, nextId, updates>>
    /\ Step(p, Goto(req[p], "keys", req[p].loc))

Created == [message |-> "User created successfully"]

\* const cacheKeys = await redisClient.keys('users:list:*')
CreateKeys(p) ==
    /\ req[p].op = "create" /\ req[p].pc = "keys"
    /\ UNCHANGED <<store, nextId, updates, cache>>
    /\ IF RedisKeys # {}
       THEN Step(p, Goto(req[p], "del", [user |-> req[p].loc.user, cacheKeys |-> RedisKeys]))
       ELSE Step(p, Respond(req[p], 201, Created))

\* Mutant of CreateDel: the list keys found are not deleted.
CreateDelSkipped(p) ==
    /\ req[p].op = "create" /\ req[p].pc = "del"
    /\ UNCHANGED <<store, nextId, updates, cache>>
    /\ Step(p, Respond(req[p], 201, Created))

\* await redisClient.del(cacheKeys)
CreateDel(p) ==
    /\ req[p].op = "create" /\ req[p].pc = "del"
    /\ cache' = RedisDel(cache, req[p].loc.cacheKeys)
    /\ UNCHANGED <<store, nextId, updates>>
    /\ Step(p, Respond(req[p], 201, Created))

(* ------------------ GET /account/:accountNumber ---------------------- *)

NotFound == [message |-> "User not found"]

\* User.findOne({ <field>: k }).select('-password'): the matching documents
FindBy(field, k) == {ExcludePassword(r) : r \in {x \in store : x[field] = k}}

\* await redisClient.get(`user:${req.params.accountNumber}`)
AccountGet(p) ==
    \E k \in AccountNumbers :
        /\ CanStart(p)
        /\ UNCHANGED <<store, nextId, updates, cache>>
        /\ LET r == [Idle EXCEPT !.op = "account", !.arg = [key |-> k]]
           IN IF RedisHas(AccountKey(k))
              THEN Admit(p, Respond(r, 200, JSONParse(RedisGet(AccountKey(k)))))
              ELSE Admit(p, Goto(r, "find", NoVal))

\* await User.findOne({ accountNumber }).select('-password')
AccountFind(p) ==
    /\ req[p].op = "account" /\ req[p].pc = "find"
    /\ UNCHANGED <<store, nextId, updates, cache>>
    /\ LET found == FindBy("accountNumber", req[p].arg.key)
       IN IF found = {}
          THEN Step(p, Respond(req[p], 404, NotFound))
          ELSE \E user \in found : Step(p, Goto(req[p], "set", [user |-> user]))

\* await redisClient.set(`user:${req.params.accountNumber}`, JSON.stringify(user))
AccountSet(p) ==
    /\ req[p].op = "account" /\ req[p].pc = "set"
    /\ cache' = RedisSet(cache, AccountKey(req[p].arg.key), JSONStringify(req[p].loc.user))
    /\ UNCHANGED <<store, nextId, updates>>
    /\ Step(p, Respond(req[p], 200, req[p].loc.user))

(* ------------------ GET /identity/:identityNumber -------------------- *)

\* await redisClient.get(`user:identity:${req.params.identityNumber}`)
IdentityGet(p) ==
    \E k \in IdentityNumbers :
        /\ CanStart(p)
        /\ UNCHANGED <<store, nextId, updates, cache>>
        /\ LET r == [Idle EXCEPT !.op = "identity", !.arg = [key |-> k]]
           IN IF RedisHas(IdentityKey(k))
              THEN Admit(p, Respond(r, 200, JSONParse(RedisGet(IdentityKey(k)))))
              ELSE Admit(p, Goto(r, "find", NoVal))

\* await User.findOne({ identityNumber }).select('-password')
IdentityFind(p) ==
    /\ req[p].op = "identity" /\ req[p].pc = "find"
    /\ UNCHANGED <<store, nextId, updates, cache>>
    /\ LET found == FindBy("identityNumber", req[p].arg.key)
       IN IF found = {}
          THEN Step(p, Respond(req[p], 404, NotFound))
          ELSE \E user \in found : Step(p, Goto(req[p], "set", [user |-> user]))

\* await redisClient.set(`user:identity:${req.params.identityNumber}`, ...)
IdentitySet(p) ==
    /\ req[p].op = "identity" /\ req[p].pc = "set"
    /\ cache' = RedisSet(cache, IdentityKey(req[p].arg.key), JSONStringify(req[p].loc.user))
    /\ UNCHANGED <<store, nextId, updates>>
    /\ Step(p, Respond(req[p], 200, req[p].loc.user))

(* --------------------------- GET /  (list) ---------------------------- *)

DefaultPage == 1
DefaultLimit == 10

\* parseInt(req.query.page) || 1, parseInt(req.query.limit) || 10
PageOf(q) == IF q.page = 0 THEN DefaultPage ELSE q.page
LimitOf(q) == IF q.limit = 0 THEN DefaultLimit ELSE q.limit
ListKey(q) == IF q.paginate = 0 THEN ListAllKey ELSE ListPageKey(PageOf(q), LimitOf(q))

\* .sort({ createdAt: -1 })
RECURSIVE SortDesc(_)
SortDesc(S) ==
    IF S = {} THEN <<>>
    ELSE LET top == CHOOSE r \in S : \A x \in S : x.createdAt <= r.createdAt
         IN <<top>> \o SortDesc(S \ {top})

\* Mutant of SkipLimit: the offset is dropped and every page is the first.
LimitOnly(s, skip, limit) == SubSeq(s, 1, IF limit < Len(s) THEN limit ELSE Len(s))

\* .skip(skip).limit(limit)
SkipLimit(s, skip, limit) ==
    SubSeq(s, skip + 1, IF skip + limit < Len(s) THEN skip + limit ELSE Len(s))

\* Math.ceil(total / limit)
Ceil(total, limit) == (total + limit - 1) \div limit

AllUsers == SortDesc({ExcludePassword(r) : r \in store})

\* await redisClient.get(cacheKey)
ListGet(p) ==
    \E q \in ListQueries :
        /\ CanStart(p)
        /\ UNCHANGED <<store, nextId, updates, cache>>
        /\ LET r == [Idle EXCEPT !.op = "list", !.arg = q]
           IN IF RedisHas(ListKey(q))
              THEN Admit(p, Respond(r, 200, JSONParse(RedisGet(ListKey(q)))))
              ELSE Admit(p, Goto(r, "find", NoVal))

\* await User.find().select('-password')[.skip(skip).limit(limit)].sort(...)
ListFind(p) ==
    /\ req[p].op = "list" /\ req[p].pc = "find"
    /\ UNCHANGED <<store, nextId, updates, cache>>
    /\ LET q == req[p].arg
       IN IF q.paginate = 0
          THEN Step(p, Goto(req[p], "setex", [response |-> [users |-> AllUsers]]))
          ELSE Step(p, Goto(req[p], "count",
                    [users |-> SkipLimit(AllUsers, (PageOf(q) - 1) * LimitOf(q), LimitOf(q))]))

\* const total = await User.countDocuments()
ListCount(p) ==
    /\ req[p].op = "list" /\ req[p].pc = "count"
    /\ UNCHANGED <<store, nextId, updates, cache>>
    /\ LET q == req[p].arg
           total == Cardinality(store)
           response ==
               [ users |-> req[p].loc.users,
                 pagination |-> [ currentPage |-> PageOf(q),
                                  totalPages |-> Ceil(total, LimitOf(q)),
                                  totalItems |-> total,
                                  itemsPerPage |-> LimitOf(q) ] ]
       IN Step(p, Goto(req[p], "setex", [response |-> response]))

\* await redisClient.setEx(cacheKey, 300, JSON.stringify(response))
ListSetEx(p) ==
    /\ req[p].op = "list" /\ req[p].pc = "setex"
    /\ cache' = RedisSetEx(cache, ListKey(req[p].arg), ListTTL,
                           JSONStringify(req[p].loc.response))
    /\ UNCHANGED <<store, nextId, updates>>
    /\ Step(p, Respond(req[p], 200, req[p].loc.response))

(* --------------------------- PUT /:id (update) ------------------------ *)

\* Mutant of UniqueFields: userName is taken for a unique field too.
UniqueFieldsAndName == {"userName", "accountNumber", "emailAddress", "identityNumber"}

\* The fields whose presence in an update calls for the uniqueness lookup
UniqueFields == {"accountNumber", "emailAddress", "identityNumber"}

\* User.findById(id)
FindById(id) == {r \in store : r._id = id}

\* A value of an update or of a query filter, cast by the schema
Cast(f, v) == IF f = "emailAddress" THEN Lowercase(v) ELSE v

\* The time of a write: later than the stamp of every earlier insert.
Now == nextId + updates

\* Mutant of ApplySet: the document is replaced, fields not provided are lost.
ApplyReplace(doc, upd) ==
    [f \in DOMAIN doc |->
        IF f \in DOMAIN upd THEN Cast(f, upd[f])
        ELSE IF f = "updatedAt" THEN Now
        ELSE IF f \in {"_id", "createdAt"} THEN doc[f]
        ELSE IF f \in {"userName", "emailAddress"} THEN ""
        ELSE <<>>]

\* { $set: updates }, to which { timestamps: true } adds updatedAt
ApplySet(doc, upd) ==
    [f \in DOMAIN doc |->
        IF f \in DOMAIN upd THEN Cast(f, upd[f])
        ELSE IF f = "updatedAt" THEN Now
        ELSE doc[f]]

\* User.findOne({ _id: { $ne: userId }, $or: [ the unique fields of updates ] })
ExistingUser(userId, upd) ==
    {r \in store :
        /\ r._id # userId
        /\ \E f \in UniqueFields \cap DOMAIN upd : r[f] = Cast(f, upd[f])}

\* const user = await User.findById(userId)
UpdateFind(p) ==
    \E id \in Ids, upd \in UpdateBodies :
        LET r == [Idle EXCEPT !.op = "update", !.arg = [id |-> id, updates |-> upd],
                              !.fresh = ExistingUser(id, upd) = {}]
        IN /\ CanStart(p)
           /\ UNCHANGED <<store, nextId, cache>>
           /\ IF FindById(id) = {}
              THEN /\ UNCHANGED updates
                   /\ Admit(p, Respond(r, 404, NotFound))
              ELSE /\ updates < MaxUpdates
                   /\ updates' = updates + 1
                   /\ \E user \in FindById(id) :
                        IF (DOMAIN upd) \cap UniqueFields # {}
                        THEN Admit(p, Goto(r, "check", [user |-> user]))
                        ELSE Admit(p, Goto(r, "update", [user |-> user]))

InUse == [message |-> "Account number, email, or identity number already in use"]
ServerError == [message |-> "Server error"]
\* the update's catch also echoes error.message
UpdateError(msg) == [message |-> "Server error", error |-> msg]

\* Mutant of UpdateCheck: the existing user found is not acted upon.
UpdateCheckIgnored(p) ==
    /\ req[p].op = "update" /\ req[p].pc = "check"
    /\ UNCHANGED <<store, nextId, updates, cache>>
    /\ Step(p, Goto(req[p], "update", req[p].loc))

\* const existingUser = await User.findOne({...})
UpdateCheck(p) ==
    /\ req[p].op = "update" /\ req[p].pc = "check"
    /\ UNCHANGED <<store, nextId, updates, cache>>
    /\ IF ExistingUser(req[p].arg.id, req[p].arg.updates) # {}
       THEN Step(p, Respond(req[p], 400, InUse))
       ELSE Step(p, Goto(req[p], "update", req[p].loc))

\* const updatedUser = await User.findByIdAndUpdate(userId, { $set: updates }, { new: true })
\* null (the document is gone) makes updatedUser.accountNumber throw; so does E11000
UpdateApply(p) ==
    /\ req[p].op = "update" /\ req[p].pc = "update"
    /\ UNCHANGED <<nextId, updates, cache>>
    /\ LET found == FindById(req[p].arg.id)
       IN IF found = {}
          THEN /\ UNCHANGED store
               /\ Step(p, Respond(req[p], 500, UpdateError("TypeError: null")))
          ELSE \E doc \in found :
                 LET updatedUser == ApplySet(doc, req[p].arg.updates)
                 IN IF DuplicateKey(updatedUser, store)
                    THEN /\ UNCHANGED store
                         /\ Step(p, Respond(req[p], 500, UpdateError("E11000 duplicate key")))
                    ELSE /\ store' = (store \ {doc}) \cup {updatedUser}
                         /\ Step(p, Goto(req[p], "del1",
                                 [user |-> req[p].loc.user, updatedUser |-> updatedUser]))

\* await redisClient.del(`user:${updatedUser.accountNumber}`)
UpdateDelAccount(p) ==
    /\ req[p].op = "update" /\ req[p].pc = "del1"
    /\ cache' = RedisDel(cache, {AccountKey(req[p].loc.updatedUser.accountNumber)})
    /\ UNCHANGED <<store, nextId, updates>>
    /\ Step(p, Goto(req[p], "del2", req[p].loc))

\* await redisClient.del(`user:${updatedUser.identityNumber}`); res.json(updatedUser)
UpdateDelIdentity(p) ==
    /\ req[p].op = "update" /\ req[p].pc = "del2"
    /\ cache' = RedisDel(cache, {AccountKey(req[p].loc.updatedUser.identityNumber)})
    /\ UNCHANGED <<store, nextId, updates>>
    /\ Step(p, Respond(req[p], 200, req[p].loc.updatedUser))

(* ------------------------- DELETE /:id (delete) ----------------------- *)

Deleted == [message |-> "User deleted successfully"]

\* Mutant of DeleteFind: an id that is not found is answered as deleted.
DeleteFindUnchecked(p) ==
    \E id \in Ids :
        LET r == [Idle EXCEPT !.op = "delete", !.arg = [id |-> id]]
        IN /\ CanStart(p)
           /\ UNCHANGED <<store, nextId, updates, cache>>
           /\ IF FindById(id) = {}
              THEN Admit(p, Respond(r, 200, Deleted))
              ELSE \E user \in FindById(id) : Admit(p, Goto(r, "del1", [user |-> user]))

\* const user = await User.findById(req.params.id)
DeleteFind(p) ==
    \E id \in Ids :
        LET r == [Idle EXCEPT !.op = "delete", !.arg = [id |-> id]]
        IN /\ CanStart(p)
           /\ UNCHANGED <<store, nextId, updates, cache>>
           /\ IF FindById(id) = {}
              THEN Admit(p, Respond(r, 404, NotFound))
              ELSE \E user \in FindById(id) : Admit(p, Goto(r, "del1", [user |-> user]))

\* await redisClient.del(`user:${user.accountNumber}`)
DeleteDelAccount(p) ==
    /\ req[p].op = "delete" /\ req[p].pc = "del1"
    /\ cache' = RedisDel(cache, {AccountKey(req[p].loc.user.accountNumber)})
    /\ UNCHANGED <<store, nextId, updates>>
    /\ Step(p, Goto(req[p], "del2", req[p].loc))

\* Mutant of DeleteDelIdentity: the key lacks the identity: prefix.
DeleteDelIdentityWrongKey(p) ==
    /\ req[p].op = "delete" /\ req[p].pc = "del2"
    /\ cache' = RedisDel(cache, {AccountKey(req[p].loc.user.identityNumber)})
    /\ UNCHANGED <<store, nextId, updates>>
    /\ Step(p, Goto(req[p], "keys", req[p].loc))

\* await redisClient.del(`user:identity:${user.identityNumber}`)
DeleteDelIdentity(p) ==
    /\ req[p].op = "delete" /\ req[p].pc = "del2"
    /\ cache' = RedisDel(cache, {IdentityKey(req[p].loc.user.identityNumber)})
    /\ UNCHANGED <<store, nextId, updates>>
    /\ Step(p, Goto(req[p], "keys", req[p].loc))

\* const cacheKeys = await redisClient.keys('users:list:*')
DeleteKeys(p) ==
    /\ req[p].op = "delete" /\ req[p].pc = "keys"
    /\ UNCHANGED <<store, nextId, updates, cache>>
    /\ IF RedisKeys # {}
       THEN Step(p, Goto(req[p], "dellist", [user |-> req[p].loc.user, cacheKeys |-> RedisKeys]))
       ELSE Step(p, Goto(req[p], "remove", req[p].loc))

\* await redisClient.del(cacheKeys)
DeleteDelList(p) ==
    /\ req[p].op = "delete" /\ req[p].pc = "dellist"
    /\ cache' = RedisDel(cache, req[p].loc.cacheKeys)
    /\ UNCHANGED <<store, nextId, updates>>
    /\ Step(p, Goto(req[p], "remove", req[p].loc))

\* await user.deleteOne()
DeleteRemove(p) ==
    /\ req[p].op = "delete" /\ req[p].pc = "remove"
    /\ store' = {r \in store : r._id # req[p].loc.user._id}
    /\ UNCHANGED <<nextId, updates, cache>>
    /\ Step(p, Respond(req[p], 200, Deleted))

(* ------------------------------- Redis -------------------------------- *)

\* A key set with an expiry is dropped by Redis once its time has passed.
Expire ==
    \E k \in DOMAIN cache :
        /\ cache[k].ttl # {}
        /\ cache' = RedisDel(cache, {k})
        /\ UNCHANGED <<store, nextId, updates, req, overlapped, par, admitted>>

Handler(p) ==
        \/ Release(p)
        \/ CreateStart(p) \/ CreateSave(p) \/ CreateSetAccount(p)
        \/ CreateSetIdentity(p) \/ CreateKeys(p) \/ CreateDel(p)
        \/ AccountGet(p) \/ AccountFind(p) \/ AccountSet(p)
        \/ IdentityGet(p) \/ IdentityFind(p) \/ IdentitySet(p)
        \/ ListGet(p) \/ ListFind(p) \/ ListCount(p) \/ ListSetEx(p)
        \/ UpdateFind(p) \/ UpdateCheck(p) \/ UpdateApply(p)
        \/ UpdateDelAccount(p) \/ UpdateDelIdentity(p)
        \/ DeleteFind(p) \/ DeleteDelAccount(p) \/ DeleteDelIdentity(p)
        \/ DeleteKeys(p) \/ DeleteDelList(p) \/ DeleteRemove(p)

Next == (\E p \in Slots : Handler(p)) \/ Expire

Spec == Init /\ [][Next]_vars

(* --------------------------- Redis failures --------------------------- *)

\* The handler positions whose next await is a call of redisClient.
RedisCalls == {"set1", "set2", "keys", "del", "set", "setex", "del1", "del2", "dellist"}

\* The body of the 500 answer of a handler's catch block.
CatchBody(op) == IF op = "update" THEN UpdateError("redis") ELSE ServerError

\* The redisClient.get that opens a list or lookup handler rejects: the
\* handler's catch answers 500.
RedisGetFails(p) ==
    \E r \in {[Idle EXCEPT !.op = "account", !.arg = [key |-> k]] : k \in AccountNumbers}
          \cup {[Idle EXCEPT !.op = "identity", !.arg = [key |-> k]] : k \in IdentityNumbers}
          \cup {[Idle EXCEPT !.op = "list", !.arg = q] : q \in ListQueries} :
        /\ CanStart(p)
        /\ UNCHANGED <<store, nextId, updates, cache>>
        /\ Admit(p, Respond(r, 500, ServerError))

\* A later redisClient call (set, setEx, keys, del) rejects: the rest of the
\* try block is skipped and the catch answers 500; nothing is undone.
RedisFails(p) ==
    /\ req[p].pc \in RedisCalls
    /\ UNCHANGED <<store, nextId, updates, cache>>
    /\ Step(p, Respond(req[p], 500, CatchBody(req[p].op)))

NextFaults == Next \/ \E p \in Slots : RedisGetFails(p) \/ RedisFails(p)

\* The keys the list requests issued can cache.
ListKeys == {ListKey(q) : q \in ListQueries}

\* Redis runs its expiry whatever the requests do: a key that stays set with
\* an expiry is dropped in the end.
ExpiryRuns ==
    \A k \in ListKeys : WF_vars(RedisHas(k) /\ Expire /\ ~RedisHas(k)')

\* The routes with time passing, explored on the runs of at most MaxRace
\* requests that arrive one after the other.
InitExpiry == Init /\ par = MaxReqs
NextExpiry == Next /\ ~overlapped'
SpecExpiry == InitExpiry /\ [][NextExpiry]_vars /\ ExpiryRuns

\* The routes with a Redis whose calls may fail at any time, explored on the
\* runs of at most MaxRace requests.
InitFaults == Init /\ par = MaxReqs
SpecFaults == InitFaults /\ [][NextFaults]_vars

(* ------------------------------ claims -------------------------------- *)

\* The request of slot p has been answered and no other request was in flight
\* while it was served.  No request starts before the answer is collected, so
\* store and cache are as the request left them (but for Redis expiry).
Alone(p) == Done(p) /\ req[p].conc = {}

Answered(p, op, status) == Done(p) /\ req[p].op = op /\ req[p].status = status

\* What a point lookup for value k of `field` must answer from the store.
AnswersFromStore(p, field) ==
    LET found == FindBy(field, req[p].arg.key)
    IN IF found = {} THEN req[p].status = 404
       ELSE req[p].status = 200 /\ req[p].body \in found

\* C1: when requests are served one at a time, get-by-account(k) and
\* get-by-identity(k) answer 200 with the store's current record for k (password
\* omitted) when there is one and 404 when there is none.
C1_PointLookupCurrent ==
    \A p \in Slots :
        /\ (Done(p) /\ ~overlapped /\ req[p].op = "account")
              => AnswersFromStore(p, "accountNumber")
        /\ (Done(p) /\ ~overlapped /\ req[p].op = "identity")
              => AnswersFromStore(p, "identityNumber")

\* C2: when an update answers 200, the cache holds no entry under user:{a} and
\* none under user:identity:{i}, a and i being the record's accountNumber and
\* identityNumber after the update.
C2_UpdateInvalidatesBothKeys ==
    \A p \in Slots :
        (Alone(p) /\ Answered(p, "update", 200)) =>
            /\ ~RedisHas(AccountKey(req[p].body.accountNumber))
            /\ ~RedisHas(IdentityKey(req[p].body.identityNumber))

\* The cache entry under key k carries the document with this _id.
Carries(k, id) == RedisHas(k) /\ JSONParse(RedisGet(k))._id = id

\* C3: when an update that changed the record's accountNumber (identityNumber)
\* has answered 200, no cache entry under the old user:{a} (user:identity:{i})
\* still carries that record.
C3_UpdateInvalidatesOldKeys ==
    \A p \in Slots :
        (Alone(p) /\ Answered(p, "update", 200)) =>
            LET old == req[p].loc.user
                new == req[p].body
            IN /\ old.accountNumber # new.accountNumber
                    => ~Carries(AccountKey(old.accountNumber), new._id)
               /\ old.identityNumber # new.identityNumber
                    => ~Carries(IdentityKey(old.identityNumber), new._id)

\* C8: the answer of a successful update carries no password field.
C8_UpdateAnswerWithoutPassword ==
    \A p \in Slots : Answered(p, "update", 200) => "password" \notin DOMAIN req[p].body

\* C4: when delete(id) of an existing record has answered 200 with no other
\* request in flight, the record is gone from the store, user:{a},
\* user:identity:{i} and every users:list:* key are gone from the cache, and a
\* lookup by a or by i misses both cache and store (so it answers 404).
C4_DeleteLeavesNothing ==
    \A p \in Slots :
        (Alone(p) /\ Answered(p, "delete", 200)) =>
            LET user == req[p].loc.user
            IN /\ FindById(req[p].arg.id) = {}
               /\ ~RedisHas(AccountKey(user.accountNumber))
               /\ ~RedisHas(IdentityKey(user.identityNumber))
               /\ RedisKeys = {}
               /\ FindBy("accountNumber", user.accountNumber) = {}
               /\ FindBy("identityNumber", user.identityNumber) = {}

\* A delete served alone has answered 200 after deleting list keys it found.
C4_Witness ==
    \E p \in Slots :
        /\ Alone(p) /\ Answered(p, "delete", 200)
        /\ "cacheKeys" \in DOMAIN req[p].loc

\* C5: when a create has answered 201 with no other request in flight, no
\* users:list:* key is left in the cache (those present before are deleted).
C5_CreateInvalidatesLists ==
    \A p \in Slots : (Alone(p) /\ Answered(p, "create", 201)) => RedisKeys = {}

\* A create served alone has answered 201 after finding list keys in the cache.
C5_Witness ==
    \E p \in Slots :
        /\ Alone(p) /\ Answered(p, "create", 201)
        /\ "cacheKeys" \in DOMAIN req[p].loc
        /\ req[p].loc.cacheKeys # {}

\* C6: a create that collides with a stored record on accountNumber,
\* emailAddress or identityNumber answers 400 "Duplicate entry found", and a
\* create that answers 400 has changed neither the store nor the cache.
C6_DuplicateCreateRejected ==
    \A p \in Slots :
        (Done(p) /\ req[p].op = "create") =>
            /\ (req[p].conc = {} /\ ~req[p].fresh) => req[p].status = 400
            /\ req[p].status # 201 =>
                  /\ req[p].status = 400
                  /\ req[p].body = [message |-> "Duplicate entry found"]
                  /\ ~req[p].touched

\* A create served alone that collided with a stored record has answered 400.
C6_Witness ==
    \E p \in Slots :
        /\ Alone(p) /\ Answered(p, "create", 400)
        /\ ~req[p].fresh
        /\ store # {}

\* C7: with no other request in flight, an update of an existing record that
\* sets a unique field to a value held by a different record answers 400 and
\* changes neither the store (the record keeps its values) nor the cache.
C7_ConflictingUpdateRejected ==
    \A p \in Slots :
        (Alone(p) /\ req[p].op = "update" /\ req[p].status # 404 /\ ~req[p].fresh) =>
            /\ req[p].status = 400
            /\ ~req[p].touched
            /\ FindById(req[p].arg.id) = {req[p].loc.user}

\* An update served alone has been rejected for a value another record holds.
C7_Witness ==
    \E p \in Slots :
        /\ Alone(p) /\ Answered(p, "update", 400)
        /\ ~req[p].fresh
        /\ "accountNumber" \in DOMAIN req[p].arg.updates

NoPassword(doc) == "password" \notin DOMAIN doc
NoPasswords(users) == \A n \in 1..Len(users) : NoPassword(users[n])

\* C9: no cache entry holds a password field, and no 200 answer of
\* get-by-account, get-by-identity or list holds one.
C9_PasswordNeverCachedNorRead ==
    /\ \A k \in DOMAIN cache :
          IF MatchesListPattern(k)
          THEN NoPasswords(JSONParse(RedisGet(k)).users)
          ELSE NoPassword(JSONParse(RedisGet(k)))
    /\ \A p \in Slots :
          /\ (Done(p) /\ req[p].op \in {"account", "identity"} /\ req[p].status = 200)
                => NoPassword(req[p].body)
          /\ Answered(p, "list", 200) => NoPasswords(req[p].body.users)

\* A lookup has been answered from the cache while a list snapshot is cached.
C9_Witness ==
    \E p \in Slots :
        /\ Answered(p, "account", 200)
        /\ req[p].loc = NoVal
        /\ \E k \in DOMAIN cache : MatchesListPattern(k) /\ Len(JSONParse(RedisGet(k)).users) > 0

SharesUniqueValue(b1, b2) ==
    \/ b1.accountNumber = b2.accountNumber
    \/ Lowercase(b1.emailAddress) = Lowercase(b2.emailAddress)
    \/ b1.identityNumber = b2.identityNumber

\* Two creates that overlapped each other and nothing else, both answered.
Raced(p, q) ==
    /\ p # q
    /\ Done(p) /\ req[p].op = "create" /\ req[p].conc = {q}
    /\ Done(q) /\ req[q].op = "create" /\ req[q].conc = {p}

\* C10: no two stored records ever share an accountNumber, emailAddress or
\* identityNumber; of two overlapping creates with a common unique value that
\* was free when each started, exactly one answers 201 and the other 400; and
\* a create that has not inserted has written nothing to the cache.
C10_ConcurrentCreatesOneWinner ==
    /\ \A r \in store : ~DuplicateKey(r, store) /\ \A x \in store : x._id = r._id => x = r
    /\ \A p, q \in Slots :
          (Raced(p, q) /\ SharesUniqueValue(req[p].arg, req[q].arg)
             /\ req[p].fresh /\ req[q].fresh)
          => {req[p].status, req[q].status} = {201, 400}
    /\ \A p \in Slots :
          (req[p].op = "create" /\ (req[p].pc = "save" \/ (Done(p) /\ req[p].status # 201)))
          => ~req[p].touched

\* Two creates with the same accountNumber raced; one won and one got 400.
C10_Witness ==
    \E p, q \in Slots :
        /\ Raced(p, q)
        /\ req[p].arg.accountNumber = req[q].arg.accountNumber
        /\ req[p].fresh /\ req[q].fresh
        /\ req[p].status = 201 /\ req[q].status = 400

\* C11: a list, get-by-account or get-by-identity request is never answered
\* 500 when only Redis fails: a failed cache call counts as a miss and the
\* answer is the 200 or 404 computed from the store.
C11_CacheFailureIsMiss ==
    \A p \in Slots :
        (Done(p) /\ req[p].op \in {"account", "identity", "list"})
            => req[p].status \in {200, 404}

\* C12: a create whose insert succeeded answers 201 "User created
\* successfully" even when a later Redis call of it fails, and the record it
\* inserted stays in the store.
C12_CreateSucceedsDespiteCache ==
    \A p \in Slots :
        (Done(p) /\ req[p].op = "create" /\ req[p].loc # NoVal) =>
            /\ req[p].status = 201 /\ req[p].body = Created
            /\ req[p].conc = {} => req[p].loc.user \in store

\* The update of slot p was turned down because another record holds one of
\* its new values: by the explicit check, or by the unique index at the write.
RejectedForConflict(p) ==
    /\ Done(p) /\ req[p].op = "update"
    /\ \/ req[p].status = 400
       \/ req[p].status = 500 /\ req[p].body = UpdateError("E11000 duplicate key")

\* C13: an update turned down because another record holds one of its new
\* unique values answers 400 and has changed nothing, also when the value was
\* taken between the explicit check and the write.
C13_UpdateConflictIs400 ==
    \A p \in Slots :
        RejectedForConflict(p) => (req[p].status = 400 /\ ~req[p].touched)

\* How many stored records were created after r.
Rank(r) == Cardinality({x \in store : x.createdAt > r.createdAt})

\* users is the run of at most `limit` records that starts `offset` records
\* down the store ordered by creation time, newest first, passwords omitted.
IsSlice(users, offset, limit) ==
    LET rest == Cardinality(store) - offset
        len == IF rest < 0 THEN 0 ELSE IF rest < limit THEN rest ELSE limit
    IN /\ Len(users) = len
       /\ \A n \in 1..Len(users) :
             \E r \in store : Rank(r) = offset + n - 1 /\ users[n] = ExcludePassword(r)

\* body is what the list query q must answer from the store as it is.
ListAnswerCorrect(q, body) ==
    LET page == IF q.page = 0 THEN 1 ELSE q.page
        limit == IF q.limit = 0 THEN 10 ELSE q.limit
        total == Cardinality(store)
    IN IF q.paginate = 0
       THEN /\ DOMAIN body = {"users"}
            /\ IsSlice(body.users, 0, total)
       ELSE /\ DOMAIN body = {"users", "pagination"}
            /\ IsSlice(body.users, (page - 1) * limit, limit)
            /\ DOMAIN body.pagination =
                  {"currentPage", "itemsPerPage", "totalItems", "totalPages"}
            /\ body.pagination.currentPage = page
            /\ body.pagination.itemsPerPage = limit
            /\ body.pagination.totalItems = total
            /\ body.pagination.totalPages * limit >= total
            /\ (body.pagination.totalPages - 1) * limit < total

\* The list request of slot p missed the cache and was answered from the store.
ListMissed(p) == Answered(p, "list", 200) /\ req[p].loc # NoVal

\* C14: a list request that misses the cache answers, with pagination, the
\* slice of the store newest first from offset (page-1)*limit of at most limit
\* records and pagination {currentPage, itemsPerPage, totalItems, totalPages =
\* ceil(totalItems/limit)}, page defaulting to 1 and limit to 10 (5 records at
\* limit 2 make 3 pages); with paginate=0 it answers {users} with every record
\* and no pagination object.
C14_ListPagination ==
    /\ Ceil(5, 2) = 3
    /\ \A p \in Slots :
          (Alone(p) /\ ListMissed(p)) => ListAnswerCorrect(req[p].arg, req[p].body)

\* With two records stored, page 2 of limit 1 was answered from the store, and
\* so was a request that left page and limit to their defaults.
C14_Witness ==
    /\ Cardinality(store) = 2
    /\ \E p \in Slots :
          /\ Alone(p) /\ ListMissed(p)
          /\ \/ req[p].arg.page = 2 /\ Len(req[p].body.users) = 1
             \/ req[p].arg.paginate = 1 /\ req[p].arg.page = 0 /\ Len(req[p].body.users) = 2

\* The update of slot p names userName and nothing else.
OnlyUserName(p) == req[p].op = "update" /\ DOMAIN req[p].arg.updates = {"userName"}

\* C15: an update of userName alone never runs the uniqueness lookup and is
\* never answered 400; for an existing id, with no other request in flight, it
\* answers 200 with the new userName, whatever the other records hold.
C15_UserNameOnlyNoCheck ==
    \A p \in Slots :
        OnlyUserName(p) =>
            /\ req[p].pc # "check"
            /\ Done(p) => req[p].status # 400
            /\ (Alone(p) /\ req[p].status # 404) =>
                  /\ req[p].status = 200
                  /\ req[p].body.userName = req[p].arg.updates.userName
                  /\ req[p].body \in store

\* A userName-only update was answered 200 while another record is stored.
C15_Witness ==
    \E p \in Slots :
        /\ OnlyUserName(p) /\ Alone(p) /\ req[p].status = 200
        /\ Cardinality(store) = 2

\* The request that starts in slot p in this step is an update or a delete of
\* an id that is not in the store.
StartsOnMissingId(p) ==
    /\ req[p].pc = "idle" /\ req'[p].pc # "idle"
    /\ req'[p].op \in {"update", "delete"}
    /\ FindById(req'[p].arg.id) = {}

\* C16: an update or a delete of an id that is not in the store is answered
\* 404 at once, and a request answered 404 has changed nothing: the store and
\* every cache key are as they were.
C16_MissingIdChangesNothing ==
    /\ [](\A p \in Slots :
            (Done(p) /\ req[p].op \in {"update", "delete"} /\ req[p].status = 404)
                => (~req[p].touched /\ req[p].body = NotFound))
    /\ [][\A p \in Slots :
            StartsOnMissingId(p) =>
                /\ req'[p].pc = "done" /\ req'[p].status = 404
                /\ store' = store /\ cache' = cache]_vars

\* A delete of an absent id was answered 404 while the store and the cache
\* hold a record and a list snapshot.
C16_Witness ==
    \E p \in Slots :
        /\ Answered(p, "delete", 404)
        /\ store # {} /\ RedisKeys # {}

\* Every request is answered, and the requests that overlapped the request of
\* slot p are lookups whose answers are still uncollected.
OnlyLookupsOverlapped(p) ==
    /\ \A q \in Slots : ~InFlight(q)
    /\ \A q \in req[p].conc :
          q \in Slots /\ Done(q) /\ req[q].op \in {"account", "identity"}

\* C17: once a delete and the lookups that overlapped it have all been
\* answered, no user:{a} and no user:identity:{i} entry of the cache carries
\* the deleted record, and the record is not in the store (so a later lookup
\* answers 404).
C17_DeleteRaceLeavesNoEntry ==
    \A p \in Slots :
        (Answered(p, "delete", 200) /\ OnlyLookupsOverlapped(p)) =>
            LET user == req[p].loc.user
            IN /\ FindById(user._id) = {}
               /\ ~Carries(AccountKey(user.accountNumber), user._id)
               /\ ~Carries(IdentityKey(user.identityNumber), user._id)

\* A list request that read the store and a create or delete that wrote it
\* overlapped each other and nothing else, in a run without updates, and both
\* are answered.
ListRacedWrite(p, q) ==
    /\ p # q
    /\ ListMissed(p) /\ req[p].conc = {q}
    /\ Answered(q, "create", 201) \/ Answered(q, "delete", 200)
    /\ req[q].conc = {p}
    /\ updates = 0

\* C18: once a list request and the create or delete that overlapped it are
\* both answered, every users:list:* entry in the cache is the answer the
\* store now gives: none is a snapshot taken before the write.
C18_NoStaleListAfterRace ==
    \A p, q \in Slots :
        ListRacedWrite(p, q) =>
            \A lq \in ListQueries :
                RedisHas(ListKey(lq)) =>
                    ListAnswerCorrect(lq, JSONParse(RedisGet(ListKey(lq))))

\* This step is a step of the update handler serving slot p.
UpdateSteps(p) ==
    /\ req[p].op = "update" /\ InFlight(p)
    /\ req'[p].pc # req[p].pc

\* The users:list:* entries are the same before and after the step.
ListsUntouched ==
    /\ {k \in DOMAIN cache' : MatchesListPattern(k)} = RedisKeys
    /\ \A k \in RedisKeys : cache'[k] = cache[k]

\* The step leaves the store alone, or rewrites the record with the id of the
\* update of slot p so that the fields named by the update hold the values
\* given and every other field outside `free` holds its old value; no other
\* record changes, none is added, none is removed.
WritesOnlyGivenFields(p, free) ==
    LET id == req[p].arg.id
        upd == req[p].arg.updates
    IN store' # store =>
          \E r \in store, w \in store' :
              /\ r._id = id /\ w._id = id
              /\ store' \ {w} = store \ {r}
              /\ DOMAIN w = DOMAIN r
              /\ \A f \in DOMAIN upd : w[f] = Cast(f, upd[f])
              /\ \A f \in (DOMAIN r) \ (DOMAIN upd \cup free) : w[f] = r[f]

\* C19 as stated: an update changes the fields it names and nothing else: the
\* id, the password hash and every other field of the record keep their
\* values, no other record changes, none is added or removed, and the
\* users:list:* entries are untouched.
C19_UpdateChangesOnlyGivenFields ==
    [][\A p \in Slots :
          UpdateSteps(p) => (WritesOnlyGivenFields(p, {}) /\ ListsUntouched)]_vars

\* C19, amended: the same, except that the update also refreshes the
\* record's updatedAt stamp.
C19_UpdateChangesGivenFieldsAndStamp ==
    [][\A p \in Slots :
          UpdateSteps(p) => (WritesOnlyGivenFields(p, {"updatedAt"}) /\ ListsUntouched)]_vars

\* An update of accountNumber alone that changed it was answered 200 while a
\* list snapshot holding the record is cached.
C19_Witness ==
    \E p \in Slots :
        /\ Answered(p, "update", 200)
        /\ DOMAIN req[p].arg.updates = {"accountNumber"}
        /\ req[p].body.accountNumber # req[p].loc.user.accountNumber
        /\ req[p].body \in store
        /\ RedisHas(ListAllKey) /\ Len(JSONParse(RedisGet(ListAllKey)).users) > 0

\* The cache slot of the lookup request r, and the pattern 'user:identity:*'.
OwnKey(r) == IF r.op = "account" THEN AccountKey(r.arg.key) ELSE IdentityKey(r.arg.key)
MatchesIdentityPattern(k) == Len(k) >= 3 /\ k[1] = "user" /\ k[2] = "identity"

\* The step in which a lookup starts in slot p reads its own slot and writes
\* nothing; on a hit the answer is the cached value as it is.
LookupStart(p) ==
    (req[p].pc = "idle" /\ req'[p].op \in {"account", "identity"}) =>
        /\ store' = store /\ cache' = cache
        /\ RedisHas(OwnKey(req'[p])) =>
              /\ req'[p].pc = "done" /\ req'[p].status = 200
              /\ req'[p].body = JSONParse(RedisGet(OwnKey(req'[p])))

\* A later step of the lookup of slot p leaves the store alone and changes
\* the cache at its own slot at most, and not at all when it answers 404.
LookupStep(p) ==
    (req[p].op \in {"account", "identity"} /\ InFlight(p) /\ req'[p].pc # req[p].pc) =>
        /\ store' = store
        /\ \A k \in (DOMAIN cache) \cup (DOMAIN cache') :
              k # OwnKey(req[p]) => (k \in DOMAIN cache /\ k \in DOMAIN cache' /\ cache'[k] = cache[k])
        /\ req'[p].status = 404 => cache' = cache
        /\ req'[p].status = 200 =>
              /\ RedisHas(OwnKey(req[p]))'
              /\ req'[p].body = JSONParse(RedisGet(OwnKey(req[p])))'

\* The key a get-by-account writes is never a user:identity:* key.
AccountWritesNoIdentityKey(p) ==
    (req[p].op = "account" /\ InFlight(p) /\ req'[p].pc # req[p].pc /\ cache' # cache)
        => ~MatchesIdentityPattern(OwnKey(req[p]))

\* C20: get-by-account(k) and get-by-identity(k) are read-throughs on their
\* own slot: a hit answers the cached value and changes nothing; a miss that
\* finds the record writes user:{k} (never a user:identity:* key), resp.
\* user:identity:{k}, and nothing else; a miss that finds nothing answers 404
\* and writes nothing; the store and the users:list:* keys never change.
C20_LookupTouchesOwnSlot ==
    [][\A p \in Slots :
          LookupStart(p) /\ LookupStep(p) /\ AccountWritesNoIdentityKey(p)]_vars

\* A key of one of the two point-lookup families.
IsPointKey(k) == k[1] = "user"

\* The step removes the point key k from the cache.
PointKeyRemoved(k) == RedisHas(k) /\ IsPointKey(k) /\ ~RedisHas(k)'

\* The step is a redisClient.del of an update or a delete handler.
ExplicitDel ==
    \E p \in Slots :
        /\ req[p].op \in {"update", "delete"}
        /\ req[p].pc \in {"del1", "del2"}
        /\ req'[p].pc # req[p].pc

\* C21: every users:list:* entry carries an expiry of 300 seconds and every
\* user:{a} and user:identity:{i} entry carries none; so a cached list
\* snapshot, stale or not, is dropped in the end even if no request follows,
\* while a point entry goes only by a del of its key by a handler.
C21_ListsExpirePointsStay ==
    /\ [](\A k \in DOMAIN cache :
            cache[k].ttl = IF MatchesListPattern(k) THEN {300} ELSE {})
    /\ \A k \in ListKeys : RedisHas(k) ~> ~RedisHas(k)
    /\ [][\A k \in DOMAIN cache : PointKeyRemoved(k) => ExplicitDel]_vars

\* After an update answered 200 a cached list snapshot differs from the store,
\* next to a point entry.
C21_Witness ==
    /\ \E p \in Slots : Answered(p, "update", 200)
    /\ \E q \in ListQueries :
          /\ RedisHas(ListKey(q))
          /\ ~ListAnswerCorrect(q, JSONParse(RedisGet(ListKey(q))))
    /\ \E k \in DOMAIN cache : IsPointKey(k)
====
